---- MODULE Spec2Model ----
(***************************************************************************)
(* Certified collections (Map, Seq, Paged, Group, Ray, GroupBuilder).      *)
(*                                                                         *)
(* Representation conventions                                              *)
(*   - byte strings (String, &[u8], labels) are sequences of integers;     *)
(*   - Option<T> is a sequence: <<>> is None and <<v>> is Some(v);         *)
(*   - a hash is the term it was computed from (an injective, collision    *)
(*     free hash): <<"h_empty">>, <<"h_leaf", b>>, <<"h_labeled", l, h>>,  *)
(*     <<"h_fork", hl, hr>>;                                               *)
(*   - a HashTree is <<"Empty">>, <<"Leaf", b>>, <<"Labeled", l, t>>,      *)
(*     <<"Fork", l, r>> or <<"Pruned", h>>;                                *)
(*   - the balanced tree is kept as its in-order entry sequence            *)
(*     <<key, value>>; its shape is the canonical one of that sequence     *)
(*     (midpoint split), a function of the key set only.                   *)
(***************************************************************************)
EXTENDS Integers, Sequences, FiniteSets, TLC

VARIABLES
    map,        \* Map<String, u32>::inner, in-order entries
    mapCall,    \* the last Map call: <<op, key, value>>
    mapRet,     \* what the last Map call returned (an Option)
    mapModel,   \* ghost: key -> Option of the most recent insert not removed since
    entries,    \* the fixed entry set of the order-independence experiment
    todo,       \* entries not yet inserted into map
    map2,       \* Option<Map> collected from an iterator over entries
    S,          \* the page capacity of Paged<K, V, S>
    paged,      \* Paged::data, a Map<PagedKey<K>, Seq<V>>, in-order entries
    pagedHist,  \* ghost: logical key -> the items given to Paged::insert, in order
    pagedCall,  \* the last call on paged / paged.data
    pagedRet,   \* what that call returned
    gPc,        \* "builder", "group" or "panic"
    builder,    \* GroupBuilder { root, data }
    group,      \* Option<Group { root, data, dependencies }>
    ray,        \* Option<Ray { to_visit, leaves }>, the Ray being filled
    tree,       \* Option<HashTree>: what the last Ray::build returned
    gCall,      \* the last GroupBuilder / Group / Ray call
    gPanic,     \* the panic message of that call, "" when it returned
    regs,       \* ghost: the (path, type) registrations that succeeded
    selected,   \* ghost: the leaf types marked on the current / last Ray
    keyA,       \* a PagedKey<K> with K a byte string (Vec<u8>, String)
    keyB,       \* another one
    cmpOrd,     \* keyA.cmp(&keyB), "" before the call
    cmpLabel    \* keyA.as_label().cmp(&keyB.as_label()), "" before the call

mapVars == <<map, mapCall, mapRet, mapModel, entries, todo, map2>>

pagedVars == <<S, paged, pagedHist, pagedCall, pagedRet>>

groupVars == <<gPc, builder, group, ray, tree, gCall, gPanic, regs, selected>>

labelVars == <<keyA, keyB, cmpOrd, cmpLabel>>

vars == <<mapVars, pagedVars, groupVars, labelVars>>

----------------------------------------------------------------------------
(* Generic helpers *)

None == <<>>

Some(v) == <<v>>

\* Ord for byte slices / derived Ord of a struct of integers: lexicographic.
RECURSIVE LexLess(_, _)
LexLess(a, b) ==
    IF b = <<>> THEN FALSE
    ELSE IF a = <<>> THEN TRUE
    ELSE IF Head(a) # Head(b) THEN Head(a) < Head(b)
    ELSE LexLess(Tail(a), Tail(b))

\* All orders in which the elements of a finite set can be visited.
RECURSIVE Perms(_)
Perms(set) ==
    IF set = {} THEN {<<>>}
    ELSE UNION {{<<x>> \o p : p \in Perms(set \ {x})} : x \in set}

----------------------------------------------------------------------------
(* HashTree algebra *)

EmptyHash == <<"h_empty">>

leaf_hash(bytes) == <<"h_leaf", bytes>>

labeled_hash(label, h) == <<"h_labeled", label, h>>

fork_hash(l, r) == <<"h_fork", l, r>>

RECURSIVE reconstruct(_)
reconstruct(t) ==
    CASE t[1] = "Empty"   -> EmptyHash
      [] t[1] = "Leaf"    -> leaf_hash(t[2])
      [] t[1] = "Labeled" -> labeled_hash(t[2], reconstruct(t[3]))
      [] t[1] = "Fork"    -> fork_hash(reconstruct(t[2]), reconstruct(t[3]))
      [] t[1] = "Pruned"  -> t[2]

\* AsHashTree for a scalar (u32, i8, ...): one Leaf holding its bytes.
ScalarAsHashTree(v) == <<"Leaf", v>>

ScalarRootHash(v) == leaf_hash(v)

----------------------------------------------------------------------------
(* Balanced tree engine over the in-order entry sequence *)

RbEmpty == <<>>

RbLen(t) == Len(t)

\* The root of the canonical shape of entries lo..hi.
RbMid(lo, hi) == (lo + hi) \div 2

\* Descent from the root towards key k; the index of its entry, or 0.
RECURSIVE RbFind(_, _, _, _)
RbFind(t, k, lo, hi) ==
    IF lo > hi THEN 0
    ELSE LET m == RbMid(lo, hi) IN
         IF t[m][1] = k THEN m
         ELSE IF LexLess(k, t[m][1]) THEN RbFind(t, k, lo, m - 1)
         ELSE RbFind(t, k, m + 1, hi)

RbGet(t, k) ==
    LET i == RbFind(t, k, 1, Len(t)) IN
    IF i = 0 THEN None ELSE Some(t[i][2])

\* insert(key, value) -> (Option<old value>, ...): insert or replace.
RbInsert(t, k, v) ==
    LET p == Cardinality({i \in 1..Len(t) : LexLess(t[i][1], k)}) IN
    IF p < Len(t) /\ t[p + 1][1] = k
    THEN [tree |-> [t EXCEPT ![p + 1] = <<k, v>>], old |-> Some(t[p + 1][2])]
    ELSE [tree |-> SubSeq(t, 1, p) \o <<(<<k, v>>)>> \o SubSeq(t, p + 1, Len(t)),
          old  |-> None]

\* delete(key) -> Option<(key, value)>.
RbDelete(t, k) ==
    LET i == RbFind(t, k, 1, Len(t)) IN
    IF i = 0 THEN [tree |-> t, old |-> None]
    ELSE [tree |-> SubSeq(t, 1, i - 1) \o SubSeq(t, i + 1, Len(t)),
          old  |-> Some(t[i])]

\* Cached hash of the subtree holding entries lo..hi, values being scalars.
RECURSIVE RbSubtreeHash(_, _, _)
RbSubtreeHash(t, lo, hi) ==
    LET m  == RbMid(lo, hi)
        h  == labeled_hash(t[m][1], ScalarRootHash(t[m][2]))
        hr == IF m < hi THEN fork_hash(h, RbSubtreeHash(t, m + 1, hi)) ELSE h
    IN  IF lo < m THEN fork_hash(RbSubtreeHash(t, lo, m - 1), hr) ELSE hr

RbRootHash(t) == IF Len(t) = 0 THEN EmptyHash ELSE RbSubtreeHash(t, 1, Len(t))

\* A node's hash tree from the optional trees of its children and its own
\* Labeled(key, value) tree, combined as the node's hash is.
ThreeWayFork(l, d, r) ==
    LET dr == IF r = None THEN d ELSE <<"Fork", d, r[1]>>
    IN  IF l = None THEN dr ELSE <<"Fork", l[1], dr>>

RbPruned(t, lo, hi) ==
    IF lo > hi THEN None ELSE Some(<<"Pruned", RbSubtreeHash(t, lo, hi)>>)

\* The full hash tree of entries lo..hi (as_hash_tree), values being scalars.
RECURSIVE RbFullTree(_, _, _)
RbFullTree(t, lo, hi) ==
    IF lo > hi THEN None
    ELSE LET m == RbMid(lo, hi) IN
         Some(ThreeWayFork(RbFullTree(t, lo, m - 1),
                           <<"Labeled", t[m][1], ScalarAsHashTree(t[m][2])>>,
                           RbFullTree(t, m + 1, hi)))

\* witness(key): descend towards key, Pruned(subtree hash) for every branch
\* off the path and for the entries passed, the full entry at the target.
RECURSIVE RbWitness(_, _, _, _)
RbWitness(t, k, lo, hi) ==
    IF lo > hi THEN None
    ELSE LET m == RbMid(lo, hi)
             entry == <<"Labeled", t[m][1], ScalarAsHashTree(t[m][2])>>
             hidden == <<"Pruned", labeled_hash(t[m][1], ScalarRootHash(t[m][2]))>>
         IN  IF t[m][1] = k
             THEN Some(ThreeWayFork(RbPruned(t, lo, m - 1), entry, RbPruned(t, m + 1, hi)))
             ELSE IF LexLess(k, t[m][1])
             THEN Some(ThreeWayFork(RbWitness(t, k, lo, m - 1), hidden, RbPruned(t, m + 1, hi)))
             ELSE Some(ThreeWayFork(RbPruned(t, lo, m - 1), hidden, RbWitness(t, k, m + 1, hi)))


----------------------------------------------------------------------------
(* Seq<V>: an append-only sequence *)

SeqNew == <<>>

SeqLen(seq) == Len(seq)

SeqAppend(seq, item) == Append(seq, item)

----------------------------------------------------------------------------
(* label.rs: Prefix, and PagedKey { key, page } as <<key, page>> *)

PagedKey(key, page) == <<key, page>>

\* impl Borrow<K> for PagedKey<K>
PagedKeyBorrow(pk) == pk[1]

PagedKeyPage(pk) == pk[2]

IsPrefixMutant(pk, prefix) == PagedKeyBorrow(pk) <= prefix

\* Prefix::is_prefix (default): self.borrow() == prefix
IsPrefix(pk, prefix) == PagedKeyBorrow(pk) = prefix

\* Single descent to the largest key that has `prefix`, guided by the order of
\* the borrowed prefixes; the index of that entry, or `best` (0: none).
RECURSIVE RbMaxWithPrefix(_, _, _, _, _)
RbMaxWithPrefix(t, prefix, lo, hi, best) ==
    IF lo > hi THEN best
    ELSE LET m == RbMid(lo, hi) IN
         IF IsPrefix(t[m][1], prefix) THEN RbMaxWithPrefix(t, prefix, m + 1, hi, m)
         ELSE IF PagedKeyBorrow(t[m][1]) < prefix
              THEN RbMaxWithPrefix(t, prefix, m + 1, hi, best)
              ELSE RbMaxWithPrefix(t, prefix, lo, m - 1, best)

\* max_entry_with_prefix(prefix) -> Option<(&K, &V)>
RbMaxEntryWithPrefix(t, prefix) ==
    LET i == RbMaxWithPrefix(t, prefix, 1, Len(t), 0) IN
    IF i = 0 THEN None ELSE Some(t[i])

\* The closures handed to modify and modify_max_with_prefix, as data:
\*   <<"append", value>>           |seq| seq.append(value)         (append_deep)
\*   <<"paged_insert", cap, item>> the closure of Paged::insert
\*   <<"key">>                     |k, _| k                        (tests)
\* CallClosure gives the closure's result `ret` and the value as it left it.
CallClosure(f, key, value) ==
    CASE f[1] = "append" -> [ret |-> None, value |-> SeqAppend(value, f[2])]
      [] f[1] = "paged_insert" ->
            IF SeqLen(value) = f[2]
            THEN [ret |-> Some(PagedKeyPage(key) + 1), value |-> value]
            ELSE [ret |-> None, value |-> SeqAppend(value, f[3])]
      [] f[1] = "key" -> [ret |-> key, value |-> value]

\* modify(key, f): apply f to the value stored under key, if any. `called`
\* tells whether f ran.
RbModify(t, k, f) ==
    LET i == RbFind(t, k, 1, Len(t)) IN
    IF i = 0 THEN [tree |-> t, called |-> FALSE]
    ELSE [tree |-> [t EXCEPT ![i] = <<t[i][1], CallClosure(f, t[i][1], t[i][2]).value>>],
          called |-> TRUE]

\* modify_max_with_prefix(prefix, f) -> Option<R>
RbModifyMaxWithPrefix(t, prefix, f) ==
    LET i == RbMaxWithPrefix(t, prefix, 1, Len(t), 0) IN
    IF i = 0 THEN [tree |-> t, ret |-> None]
    ELSE LET r == CallClosure(f, t[i][1], t[i][2]) IN
         [tree |-> [t EXCEPT ![i] = <<t[i][1], r.value>>], ret |-> Some(r.ret)]

----------------------------------------------------------------------------
(* Map<K, V> *)

MapNew == RbEmpty

MapLen(m) == RbLen(m)

MapGet(m, key) == RbGet(m, key)

MapInsertMutant(m, key, value) ==
    [tree |-> IF RbGet(m, key) = None THEN RbInsert(m, key, value).tree ELSE m,
     old  |-> RbInsert(m, key, value).old]

MapInsert(m, key, value) == RbInsert(m, key, value)

MapRemoveMutant(m, key) ==
    LET r == RbDelete(m, key) IN
    [tree |-> IF Len(m) > 1 THEN r.tree ELSE m,
     old  |-> IF r.old = None THEN None ELSE Some(r.old[1][2])]

MapRemove(m, key) ==
    LET r == RbDelete(m, key) IN
    [tree |-> r.tree, old |-> IF r.old = None THEN None ELSE Some(r.old[1][2])]

MapRootHash(m) == RbRootHash(m)

MapAsHashTree(m) == IF Len(m) = 0 THEN <<"Empty">> ELSE RbFullTree(m, 1, Len(m))[1]

MapWitness(m, key) == IF Len(m) = 0 THEN <<"Empty">> ELSE RbWitness(m, key, 1, Len(m))[1]

RECURSIVE MapFromIterMutant(_)
MapFromIterMutant(iter) ==
    IF Len(iter) <= 1 THEN MapNew
    ELSE LET e == iter[Len(iter)] IN
         MapInsert(MapFromIterMutant(SubSeq(iter, 1, Len(iter) - 1)), e[1], e[2]).tree

\* impl FromIterator: insert every item of the iterator, in its order.
RECURSIVE MapFromIter(_)
MapFromIter(iter) ==
    IF iter = <<>> THEN MapNew
    ELSE LET e == iter[Len(iter)] IN
         MapInsert(MapFromIter(SubSeq(iter, 1, Len(iter) - 1)), e[1], e[2]).tree

AppendDeepMutant(m, key, value) ==
    LET r == RbModify(m, key, <<"append", value>>) IN
    IF r.called THEN r.tree
    ELSE RbInsert(r.tree, key, SeqNew).tree

\* Map<K, Seq<V>>::append_deep: the closure takes `value` when the key is
\* present; a value still there afterwards goes into a new Seq.
AppendDeep(m, key, value) ==
    LET r == RbModify(m, key, <<"append", value>>) IN
    IF r.called THEN r.tree
    ELSE RbInsert(r.tree, key, SeqAppend(SeqNew, value)).tree

\* Map<K, Seq<V>>::len_deep
LenDeep(m, key) ==
    LET v == RbGet(m, key) IN
    IF v = None THEN 0 ELSE SeqLen(v[1])

----------------------------------------------------------------------------
(* Paged<K, V, S> *)

PagedNew == MapNew

\* The closure Paged::insert hands to modify_max_with_prefix. Its key.page + 1
\* is u32 arithmetic; the page numbers of this model stay far below 2^32.
PagedInsertClosure(cap, item) == <<"paged_insert", cap, item>>

PagedInsertMutant(cap, data, key, item) ==
    LET r == RbModifyMaxWithPrefix(data, key, PagedInsertClosure(cap - 1, item))
        page == IF r.ret = None THEN Some(0) ELSE r.ret[1]
    IN  IF page = None THEN r.tree
        ELSE RbInsert(r.tree, PagedKey(key, page[1]), SeqAppend(SeqNew, item)).tree

\* Paged::insert
PagedInsert(cap, data, key, item) ==
    LET r == RbModifyMaxWithPrefix(data, key, PagedInsertClosure(cap, item))
        page == IF r.ret = None THEN Some(0) ELSE r.ret[1]
    IN  IF page = None THEN r.tree
        ELSE RbInsert(r.tree, PagedKey(key, page[1]), SeqAppend(SeqNew, item)).tree

PagedGetLastPageNumberMutant(data, key) ==
    LET e == RbMaxEntryWithPrefix(data, key) IN
    IF e = None THEN None ELSE Some(PagedKeyPage(e[1][1]) + 1)

\* Paged::get_last_page_number
PagedGetLastPageNumber(data, key) ==
    LET e == RbMaxEntryWithPrefix(data, key) IN
    IF e = None THEN None ELSE Some(PagedKeyPage(e[1][1]))

\* Paged::get
PagedGet(data, key, page) == MapGet(data, PagedKey(key, page))

----------------------------------------------------------------------------
(* Group leaves (the certifiable-leaf contract). A leaf value is             *)
(* <<"scalar", v>> (i8, u8) or <<"map", entries>> (Map<String, i8>).         *)

LeafRootHash(v) ==
    IF v[1] = "scalar" THEN ScalarRootHash(v[2]) ELSE MapRootHash(v[2])

LeafAsHashTree(v) ==
    IF v[1] = "scalar" THEN ScalarAsHashTree(v[2]) ELSE MapAsHashTree(v[2])

\* HashMap::insert / HashMap::remove on a function.
HashMapInsert(f, k, v) == [x \in DOMAIN f \cup {k} |-> IF x = k THEN v ELSE f[x]]

HashMapRemove(f, k) == [x \in DOMAIN f \ {k} |-> f[x]]

----------------------------------------------------------------------------
(* GroupNode { id, data }: <<"Fork", id, left, right>>,                      *)
(* <<"Labeled", id, label, node>> or <<"Leaf", id, tid>>                     *)

\* As visit_node, but a Labeled node does not push its id on the path.
RECURSIVE visit_nodeSkipLabeled(_, _, _, _)
visit_nodeSkipLabeled(n, id, dependencies, path) ==
    CASE n[1] = "Fork" ->
            LET p == Append(path, id)
                l == visit_nodeSkipLabeled(n[3], id + 1, dependencies, p)
                r == visit_nodeSkipLabeled(n[4], l.next_id, l.dependencies, p)
            IN  [node |-> <<"Fork", id, l.node, r.node>>,
                 next_id |-> r.next_id,
                 dependencies |-> r.dependencies]
      [] n[1] = "Leaf" ->
            [node |-> <<"Leaf", id, n[3]>>,
             next_id |-> id + 1,
             dependencies |-> HashMapInsert(dependencies, n[3], Append(path, id))]
      [] n[1] = "Labeled" ->
            LET c == visit_nodeSkipLabeled(n[4], id + 1, dependencies, path)
            IN  [node |-> <<"Labeled", id, n[3], c.node>>,
                 next_id |-> c.next_id,
                 dependencies |-> c.dependencies]

\* GroupNode::visit_node: assign the ids and collect the dependencies; gives
\* the node with its ids, the next free id and the dependencies.
RECURSIVE visit_node(_, _, _, _)
visit_node(n, id, dependencies, path) ==
    CASE n[1] = "Fork" ->
            LET p == Append(path, id)
                l == visit_node(n[3], id + 1, dependencies, p)
                r == visit_node(n[4], l.next_id, l.dependencies, p)
            IN  [node |-> <<"Fork", id, l.node, r.node>>,
                 next_id |-> r.next_id,
                 dependencies |-> r.dependencies]
      [] n[1] = "Leaf" ->
            [node |-> <<"Leaf", id, n[3]>>,
             next_id |-> id + 1,
             dependencies |-> HashMapInsert(dependencies, n[3], Append(path, id))]
      [] n[1] = "Labeled" ->
            LET c == visit_node(n[4], id + 1, dependencies, Append(path, id))
            IN  [node |-> <<"Labeled", id, n[3], c.node>>,
                 next_id |-> c.next_id,
                 dependencies |-> c.dependencies]

\* Group::init
GroupInit(g) ==
    LET r == visit_node(g.root, 0, <<>>, <<>>) IN
    [root |-> r.node, data |-> g.data, dependencies |-> r.dependencies]

\* GroupNode::root_hash
RECURSIVE NodeRootHash(_, _)
NodeRootHash(n, data) ==
    CASE n[1] = "Fork" -> fork_hash(NodeRootHash(n[3], data), NodeRootHash(n[4], data))
      [] n[1] = "Labeled" -> labeled_hash(n[3], NodeRootHash(n[4], data))
      [] n[1] = "Leaf" -> LeafRootHash(data[n[3]])

\* GroupNode::witness_all
RECURSIVE NodeWitnessAll(_, _)
NodeWitnessAll(n, data) ==
    CASE n[1] = "Fork" -> <<"Fork", NodeWitnessAll(n[3], data), NodeWitnessAll(n[4], data)>>
      [] n[1] = "Labeled" -> <<"Labeled", n[3], NodeWitnessAll(n[4], data)>>
      [] n[1] = "Leaf" -> LeafAsHashTree(data[n[3]])

\* As NodeWitness, but a Labeled node outside to_visit is pruned with the hash
\* of its child.
RECURSIVE NodeWitnessUnlabeled(_, _, _, _)
NodeWitnessUnlabeled(n, data, to_visit, leaves) ==
    IF n[2] \notin to_visit
    THEN [tree |-> <<"Pruned", NodeRootHash(IF n[1] = "Labeled" THEN n[4] ELSE n, data)>>,
          leaves |-> leaves, panic |-> FALSE]
    ELSE CASE n[1] = "Fork" ->
                 LET l == NodeWitnessUnlabeled(n[3], data, to_visit, leaves) IN
                 IF l.panic THEN l
                 ELSE LET r == NodeWitnessUnlabeled(n[4], data, to_visit, l.leaves) IN
                      [tree |-> <<"Fork", l.tree, r.tree>>, leaves |-> r.leaves,
                       panic |-> r.panic]
           [] n[1] = "Labeled" ->
                 LET c == NodeWitnessUnlabeled(n[4], data, to_visit, leaves) IN
                 [tree |-> <<"Labeled", n[3], c.tree>>, leaves |-> c.leaves,
                  panic |-> c.panic]
           [] n[1] = "Leaf" ->
                 IF n[3] \in DOMAIN leaves
                 THEN [tree |-> leaves[n[3]], leaves |-> HashMapRemove(leaves, n[3]),
                       panic |-> FALSE]
                 ELSE [tree |-> <<"Empty">>, leaves |-> leaves, panic |-> TRUE]

\* As NodeWitness, but only a Leaf outside to_visit is pruned: Fork and
\* Labeled nodes are always walked.
RECURSIVE NodeWitnessDeep(_, _, _, _)
NodeWitnessDeep(n, data, to_visit, leaves) ==
    CASE n[1] = "Fork" ->
            LET l == NodeWitnessDeep(n[3], data, to_visit, leaves) IN
            IF l.panic THEN l
            ELSE LET r == NodeWitnessDeep(n[4], data, to_visit, l.leaves) IN
                 [tree |-> <<"Fork", l.tree, r.tree>>, leaves |-> r.leaves,
                  panic |-> r.panic]
      [] n[1] = "Labeled" ->
            LET c == NodeWitnessDeep(n[4], data, to_visit, leaves) IN
            [tree |-> <<"Labeled", n[3], c.tree>>, leaves |-> c.leaves,
             panic |-> c.panic]
      [] n[1] = "Leaf" ->
            IF n[2] \notin to_visit
            THEN [tree |-> <<"Pruned", NodeRootHash(n, data)>>, leaves |-> leaves,
                  panic |-> FALSE]
            ELSE IF n[3] \in DOMAIN leaves
            THEN [tree |-> leaves[n[3]], leaves |-> HashMapRemove(leaves, n[3]),
                  panic |-> FALSE]
            ELSE [tree |-> <<"Empty">>, leaves |-> leaves, panic |-> TRUE]

\* GroupNode::witness: the tree, the overrides left in ray.leaves, and whether
\* ray.leaves.remove(tid).unwrap() panicked.
RECURSIVE NodeWitness(_, _, _, _)
NodeWitness(n, data, to_visit, leaves) ==
    IF n[2] \notin to_visit
    THEN [tree |-> <<"Pruned", NodeRootHash(n, data)>>, leaves |-> leaves, panic |-> FALSE]
    ELSE CASE n[1] = "Fork" ->
                 LET l == NodeWitness(n[3], data, to_visit, leaves) IN
                 IF l.panic THEN l
                 ELSE LET r == NodeWitness(n[4], data, to_visit, l.leaves) IN
                      [tree |-> <<"Fork", l.tree, r.tree>>, leaves |-> r.leaves,
                       panic |-> r.panic]
           [] n[1] = "Labeled" ->
                 LET c == NodeWitness(n[4], data, to_visit, leaves) IN
                 [tree |-> <<"Labeled", n[3], c.tree>>, leaves |-> c.leaves,
                  panic |-> c.panic]
           [] n[1] = "Leaf" ->
                 IF n[3] \in DOMAIN leaves
                 THEN [tree |-> leaves[n[3]], leaves |-> HashMapRemove(leaves, n[3]),
                       panic |-> FALSE]
                 ELSE [tree |-> <<"Empty">>, leaves |-> leaves, panic |-> TRUE]

\* impl AsHashTree for Group
GroupRootHash(g) == NodeRootHash(g.root, g.data)

GroupAsHashTree(g) == NodeWitnessAll(g.root, g.data)

----------------------------------------------------------------------------
(* Ray { group, to_visit, leaves } *)

RayNew == [to_visit |-> {}, leaves |-> <<>>]

SeqToSet(q) == {q[i] : i \in 1..Len(q)}

\* As RayFull, but the leaf's tree is not stored in ray.leaves.
RayFullNoOverride(g, r, tid) ==
    [to_visit |-> r.to_visit \cup SeqToSet(g.dependencies[tid]),
     leaves |-> r.leaves]

\* Ray::full
RayFull(g, r, tid) ==
    [to_visit |-> r.to_visit \cup SeqToSet(g.dependencies[tid]),
     leaves |-> HashMapInsert(r.leaves, tid, LeafAsHashTree(g.data[tid]))]

\* Ray::partial; w is the HashTree that f returned
RayPartial(g, r, tid, w) ==
    [to_visit |-> r.to_visit \cup SeqToSet(g.dependencies[tid]),
     leaves |-> HashMapInsert(r.leaves, tid, w)]

\* Ray::build
RayBuild(g, r) == NodeWitness(g.root, g.data, r.to_visit, r.leaves)

----------------------------------------------------------------------------
(* GroupBuilder: GroupBuilderNode is <<"Directory", children>> (children a   *)
(* function of the segment names, a BTreeMap) or <<"Leaf", tid>>             *)

GroupBuilderNew == [root |-> <<"Directory", <<>>>>, data |-> <<>>]

\* As BuilderNodeInsert, but a longer path always starts a new directory
\* under its first segment (insert instead of entry().or_insert_with()).
RECURSIVE BuilderNodeInsertReplace(_, _, _)
BuilderNodeInsertReplace(n, path, tid) ==
    IF n[1] = "Directory"
    THEN IF Len(path) = 1
         THEN IF path[1] \in DOMAIN n[2]
              THEN [node |-> n, panic |-> "Path is already used."]
              ELSE [node |-> <<"Directory", HashMapInsert(n[2], path[1], <<"Leaf", tid>>)>>,
                    panic |-> ""]
         ELSE IF Len(path) = 0
         THEN [node |-> n, panic |-> "called Option::unwrap() on a None value"]
         ELSE LET dir_name == Head(path)
                  r == BuilderNodeInsertReplace(<<"Directory", <<>>>>, Tail(path), tid)
              IN  IF r.panic # "" THEN [node |-> n, panic |-> r.panic]
                  ELSE [node |-> <<"Directory", HashMapInsert(n[2], dir_name, r.node)>>,
                        panic |-> ""]
    ELSE [node |-> n, panic |-> "Can not insert to a leaf node."]

\* As BuilderNodeInsert, but a name already among the children is kept
\* silently (or_insert without the and_modify panic).
RECURSIVE BuilderNodeInsertKeep(_, _, _)
BuilderNodeInsertKeep(n, path, tid) ==
    IF n[1] = "Directory"
    THEN IF Len(path) = 1
         THEN IF path[1] \in DOMAIN n[2]
              THEN [node |-> n, panic |-> ""]
              ELSE [node |-> <<"Directory", HashMapInsert(n[2], path[1], <<"Leaf", tid>>)>>,
                    panic |-> ""]
         ELSE IF Len(path) = 0
         THEN [node |-> n, panic |-> "called Option::unwrap() on a None value"]
         ELSE LET dir_name == Head(path)
                  child == IF dir_name \in DOMAIN n[2] THEN n[2][dir_name]
                           ELSE <<"Directory", <<>>>>
                  r == BuilderNodeInsertKeep(child, Tail(path), tid)
              IN  IF r.panic # "" THEN [node |-> n, panic |-> r.panic]
                  ELSE [node |-> <<"Directory", HashMapInsert(n[2], dir_name, r.node)>>,
                        panic |-> ""]
    ELSE [node |-> n, panic |-> "Can not insert to a leaf node."]

\* GroupBuilderNode::insert: the node afterwards, or the panic message.
RECURSIVE BuilderNodeInsert(_, _, _)
BuilderNodeInsert(n, path, tid) ==
    IF n[1] = "Directory"
    THEN IF Len(path) = 1
         THEN IF path[1] \in DOMAIN n[2]
              THEN [node |-> n, panic |-> "Path is already used."]
              ELSE [node |-> <<"Directory", HashMapInsert(n[2], path[1], <<"Leaf", tid>>)>>,
                    panic |-> ""]
         ELSE IF Len(path) = 0
         THEN [node |-> n, panic |-> "called Option::unwrap() on a None value"]
         ELSE LET dir_name == Head(path)
                  child == IF dir_name \in DOMAIN n[2] THEN n[2][dir_name]
                           ELSE <<"Directory", <<>>>>
                  r == BuilderNodeInsert(child, Tail(path), tid)
              IN  IF r.panic # "" THEN [node |-> n, panic |-> r.panic]
                  ELSE [node |-> <<"Directory", HashMapInsert(n[2], dir_name, r.node)>>,
                        panic |-> ""]
    ELSE [node |-> n, panic |-> "Can not insert to a leaf node."]

\* GroupBuilder::insert
GroupBuilderInsert(b, path, tid, leaf) ==
    IF tid \in DOMAIN b.data
    THEN [builder |-> b, panic |-> "Type is already used in the group."]
    ELSE LET r == BuilderNodeInsert(b.root, path, tid) IN
         [builder |-> [root |-> r.node, data |-> HashMapInsert(b.data, tid, leaf)],
          panic |-> r.panic]

\* The keys of a BTreeMap<String, _> in iteration order (ascending).
RECURSIVE SortedNames(_)
SortedNames(names) ==
    IF names = {} THEN <<>>
    ELSE LET least == CHOOSE x \in names : \A y \in names \ {x} : LexLess(x, y)
         IN  <<least>> \o SortedNames(names \ {least})

\* As PairUp, but only the first two nodes are paired in a pass (a reduce).
PairUpReduce(children) ==
    IF Len(children) > 1
    THEN <<(<<"Fork", 0, children[1], children[2]>>)>>
             \o SubSeq(children, 3, Len(children))
    ELSE children

\* One pass of the inner loop: pair adjacent nodes from the front, carry an
\* odd last node over.
RECURSIVE PairUp(_)
PairUp(children) ==
    IF Len(children) > 1
    THEN <<(<<"Fork", 0, children[1], children[2]>>)>>
             \o PairUp(SubSeq(children, 3, Len(children)))
    ELSE children

\* The outer loop: until one node remains.
RECURSIVE FoldForks(_)
FoldForks(children) ==
    IF Len(children) > 1 THEN FoldForks(PairUp(children)) ELSE children[1]

\* GroupBuilderNode::build
RECURSIVE BuilderNodeBuild(_)
BuilderNodeBuild(n) ==
    IF n[1] = "Directory"
    THEN LET names == SortedNames(DOMAIN n[2])
         IN  FoldForks([i \in 1..Len(names) |->
                 <<"Labeled", 0, names[i], BuilderNodeBuild(n[2][names[i]])>>])
    ELSE <<"Leaf", 0, n[2]>>

\* GroupBuilder::build; a root directory without children has nothing to pop.
GroupBuilderBuild(b) ==
    IF DOMAIN b.root[2] = {}
    THEN [group |-> None, panic |-> "called Option::unwrap() on a None value"]
    ELSE [group |-> Some(GroupInit([root |-> BuilderNodeBuild(b.root), data |-> b.data,
                                    dependencies |-> <<>>])),
          panic |-> ""]

----------------------------------------------------------------------------
(* Map<String, u32>: insert / remove / get, as in the tests of map.rs *)

MapKeys == {<<65>>, <<65, 66>>, <<66>>, <<67>>}

MapValues == 0..2

\* The PagedKey comparison part of a run that compares no keys.
InitLabelIdle ==
    /\ keyA = <<>>
    /\ keyB = <<>>
    /\ cmpOrd = ""
    /\ cmpLabel = ""

\* The Group part of a run that has no Group.
InitGroupIdle ==
    /\ gPc = "builder"
    /\ builder = <<>>
    /\ group = None
    /\ ray = None
    /\ tree = None
    /\ gCall = <<"new">>
    /\ gPanic = ""
    /\ regs = {}
    /\ selected = {}

\* The Paged part of a run that has no Paged.
InitPagedIdle ==
    /\ S = 0
    /\ paged = PagedNew
    /\ pagedHist = <<>>
    /\ pagedCall = <<"new">>
    /\ pagedRet = None

\* The Map part of a run that has no Map<String, u32>.
InitMapIdle ==
    /\ map = MapNew
    /\ mapCall = <<"new">>
    /\ mapRet = None
    /\ mapModel = <<>>
    /\ entries = {}
    /\ todo = {}
    /\ map2 = None

InitMap ==
    /\ map = MapNew
    /\ mapCall = <<"new">>
    /\ mapRet = None
    /\ mapModel = [k \in MapKeys |-> None]
    /\ entries = {}
    /\ todo = {}
    /\ map2 = None
    /\ InitPagedIdle
    /\ InitGroupIdle
    /\ InitLabelIdle

DoMapInsert(key, value) ==
    LET r == MapInsert(map, key, value) IN
    /\ map' = r.tree
    /\ mapRet' = r.old
    /\ mapCall' = <<"insert", key, value>>
    /\ mapModel' = [mapModel EXCEPT ![key] = Some(value)]
    /\ UNCHANGED <<entries, todo, map2, pagedVars, groupVars, labelVars>>

DoMapRemove(key) ==
    LET r == MapRemove(map, key) IN
    /\ map' = r.tree
    /\ mapRet' = r.old
    /\ mapCall' = <<"remove", key>>
    /\ mapModel' = [mapModel EXCEPT ![key] = None]
    /\ UNCHANGED <<entries, todo, map2, pagedVars, groupVars, labelVars>>

DoMapGet(key) ==
    /\ mapRet' = MapGet(map, key)
    /\ mapCall' = <<"get", key>>
    /\ UNCHANGED <<map, mapModel, entries, todo, map2, pagedVars, groupVars, labelVars>>

NextMap ==
    \/ \E key \in MapKeys, value \in MapValues : DoMapInsert(key, value)
    \/ \E key \in MapKeys : DoMapRemove(key)
    \/ \E key \in MapKeys : DoMapGet(key)

SpecMap == InitMap /\ [][NextMap]_vars

\* C6: Map::insert(k, v) returns None when k was absent and otherwise the value
\* stored under k immediately before the call; after any sequence of calls,
\* get(k) is the value of the most recent insert for k (not removed since) and
\* None for a key that holds no insert.
C6_InsertGetRoundTrip ==
    [][ /\ \A k \in MapKeys : MapGet(map', k) = mapModel'[k]
        /\ mapCall'[1] = "insert" =>
               /\ mapRet' = MapGet(map, mapCall'[2])
               /\ mapRet' = mapModel[mapCall'[2]]
               /\ MapGet(map', mapCall'[2]) = Some(mapCall'[3])
        /\ mapCall'[1] = "get" => mapRet' = mapModel[mapCall'[2]] ]_vars

\* C6 witness: an insert has just replaced a different older value while two
\* other keys are stored and a fourth key was never inserted.
C6_Witness ==
    /\ mapCall[1] = "insert"
    /\ mapRet # None
    /\ mapRet # Some(mapCall[3])
    /\ MapGet(map, mapCall[2]) = Some(mapCall[3])
    /\ MapLen(map) = 3
    /\ \E k \in MapKeys : MapGet(map, k) = None

\* C7: Map::remove(k) returns the value stored under k (None when absent);
\* afterwards get(k) is None and every other key keeps its value; once every
\* inserted key has been removed, in whatever order, the map is empty.
C7_DeleteCorrectness ==
    [][ mapCall'[1] = "remove" =>
           /\ mapRet' = MapGet(map, mapCall'[2])
           /\ MapGet(map', mapCall'[2]) = None
           /\ \A k \in MapKeys \ {mapCall'[2]} : MapGet(map', k) = MapGet(map, k)
           /\ MapLen(map') = MapLen(map) - (IF mapRet' = None THEN 0 ELSE 1)
           /\ (\A k \in MapKeys : mapModel'[k] = None) =>
                  /\ map' = MapNew
                  /\ \A k \in MapKeys : MapGet(map', k) = None ]_vars

\* C7 witness: a remove has just returned the stored value of its key and two
\* other keys are still stored.
C7_Witness ==
    /\ mapCall[1] = "remove"
    /\ mapRet # None
    /\ MapGet(map, mapCall[2]) = None
    /\ MapLen(map) = 2

----------------------------------------------------------------------------
(* Order independence: the same entries, inserted in every order *)

MaxEntries == 3

\* Every set of at most MaxEntries (key, value) entries with unique keys.
EntrySets ==
    UNION {[ks -> MapValues] : ks \in {s \in SUBSET MapKeys : Cardinality(s) <= MaxEntries}}

EntriesOf(f) == {<<k, f[k]>> : k \in DOMAIN f}

InitOrder ==
    /\ \E f \in EntrySets : entries = EntriesOf(f)
    /\ todo = entries
    /\ map = MapNew
    /\ map2 = None
    /\ mapCall = <<"new">>
    /\ mapRet = None
    /\ mapModel = [k \in MapKeys |-> None]
    /\ InitPagedIdle
    /\ InitGroupIdle
    /\ InitLabelIdle

\* One more map.insert(key, value), the entries taken in any order.
OrderInsert(e) ==
    /\ e \in todo
    /\ map' = MapInsert(map, e[1], e[2]).tree
    /\ todo' = todo \ {e}
    /\ UNCHANGED <<mapCall, mapRet, mapModel, entries, map2, pagedVars, groupVars, labelVars>>

\* iter.collect::<Map<_, _>>() over the entries in the order `iter`.
OrderCollect(iter) ==
    /\ map2 = None
    /\ map2' = Some(MapFromIter(iter))
    /\ UNCHANGED <<map, mapCall, mapRet, mapModel, entries, todo, pagedVars, groupVars, labelVars>>

NextOrder ==
    \/ \E e \in todo : OrderInsert(e)
    \/ \E iter \in Perms(entries) : OrderCollect(iter)

SpecOrder == InitOrder /\ [][NextOrder]_vars

\* C3: the same unique-key entries, inserted one by one in any order or
\* collected from an iterator in any order, give the same content (get, len)
\* and the same root_hash().
C3_OrderIndependence ==
    (todo = {} /\ map2 # None) =>
        /\ MapRootHash(map) = MapRootHash(map2[1])
        /\ MapLen(map) = MapLen(map2[1])
        /\ MapLen(map) = Cardinality(entries)
        /\ \A k \in MapKeys : MapGet(map, k) = MapGet(map2[1], k)
        /\ \A e \in entries : MapGet(map, e[1]) = Some(e[2])

\* C3 witness: three entries have been inserted one by one and also collected.
C3_Witness ==
    /\ todo = {}
    /\ map2 # None
    /\ Cardinality(entries) = 3
    /\ MapLen(map) = 3
    /\ MapRootHash(map2[1]) # EmptyHash

----------------------------------------------------------------------------
(* Paged<i32, u32, S>: insert and get_last_page_number *)

MaxS == 3

MaxItems == 7

PagedLogicalKeys == {1, 3}

\* Keys asked for: below, between and above the keys that receive items.
PagedQueryKeys == 0..4

PagedItems == {0, 1}

RECURSIVE SumLen(_, _)
SumLen(f, ks) ==
    IF ks = {} THEN 0
    ELSE LET k == CHOOSE x \in ks : TRUE IN Len(f[k]) + SumLen(f, ks \ {k})

InitPaged ==
    /\ S \in 0..MaxS
    /\ paged = PagedNew
    /\ pagedHist = [k \in PagedLogicalKeys |-> <<>>]
    /\ pagedCall = <<"new">>
    /\ pagedRet = None
    /\ InitMapIdle
    /\ InitGroupIdle
    /\ InitLabelIdle

DoPagedInsert(key, item) ==
    /\ SumLen(pagedHist, PagedLogicalKeys) < MaxItems
    /\ paged' = PagedInsert(S, paged, key, item)
    /\ pagedHist' = [pagedHist EXCEPT ![key] = Append(@, item)]
    /\ pagedCall' = <<"insert", key, item>>
    /\ pagedRet' = None
    /\ UNCHANGED <<S, mapVars, groupVars, labelVars>>

DoPagedGetLastPageNumber(key) ==
    /\ pagedRet' = PagedGetLastPageNumber(paged, key)
    /\ pagedCall' = <<"get_last_page_number", key>>
    /\ UNCHANGED <<S, paged, pagedHist, mapVars, groupVars, labelVars>>

NextPaged ==
    \/ \E key \in PagedLogicalKeys, item \in PagedItems : DoPagedInsert(key, item)
    \/ \E key \in PagedQueryKeys : DoPagedGetLastPageNumber(key)

SpecPaged == InitPaged /\ [][NextPaged]_vars

\* The page numbers stored for a logical key, read off the entries.
PagesOf(data, key) ==
    {PagedKeyPage(data[i][1]) : i \in {j \in 1..Len(data) : PagedKeyBorrow(data[j][1]) = key}}

PageSeq(data, key, page) ==
    LET i == CHOOSE j \in 1..Len(data) : data[j][1] = PagedKey(key, page) IN data[i][2]

MaxOf(set) == CHOOSE x \in set : \A y \in set : y <= x

\* Pages 0..m without a gap, every page below m full, no page above capacity.
PagedInvariant ==
    \A key \in PagedLogicalKeys :
        LET ps == PagesOf(paged, key) IN
        ps # {} =>
            LET m == MaxOf(ps) IN
            /\ ps = 0..m
            /\ \A pg \in ps :
                   /\ SeqLen(PageSeq(paged, key, pg)) <= S
                   /\ pg < m => SeqLen(PageSeq(paged, key, pg)) = S
            /\ {pg \in ps : SeqLen(PageSeq(paged, key, pg)) < S} \subseteq {m}

\* C4 as stated: the Paged invariant after any sequence of inserts, for any S.
C4_PagedInvariantAnyS == PagedInvariant

\* C4 amended: for any page capacity S >= 1, after any sequence of inserts
\* with any keys interleaved, every key's pages are 0..m without a gap, pages
\* below m hold exactly S items, no page holds more than S, and only page m
\* can be open.
C4_PagedInvariant == S >= 1 => PagedInvariant

\* C4 witness: capacity 2, key 1 has pages 0..2 (5 items) and key 3 an open
\* page, the inserts of the two keys interleaved.
C4_Witness ==
    /\ S = 2
    /\ PagesOf(paged, 1) = {0, 1, 2}
    /\ PagesOf(paged, 3) = {0}
    /\ pagedCall = <<"insert", 1, 1>>
    /\ Len(pagedHist[3]) = 1

RECURSIVE ConcatPages(_, _, _)
ConcatPages(data, key, last) ==
    IF last < 0 THEN <<>>
    ELSE LET pg == PagedGet(data, key, last) IN
         ConcatPages(data, key, last - 1) \o (IF pg = None THEN <<>> ELSE pg[1])

CeilDiv(n, d) == (n + d - 1) \div d

\* C5: for S >= 1, a key that received n >= 1 items has exactly ceil(n/S)
\* pages, get_last_page_number is ceil(n/S) - 1 (None for a key without items),
\* and the pages read in ascending order give the items in insertion order.
C5_PagingCount ==
    S >= 1 =>
        /\ \A key \in PagedLogicalKeys :
               LET n == Len(pagedHist[key]) IN
               IF n = 0
               THEN /\ PagesOf(paged, key) = {}
                    /\ PagedGetLastPageNumber(paged, key) = None
               ELSE /\ Cardinality(PagesOf(paged, key)) = CeilDiv(n, S)
                    /\ PagedGetLastPageNumber(paged, key) = Some(CeilDiv(n, S) - 1)
                    /\ ConcatPages(paged, key, CeilDiv(n, S) - 1) = pagedHist[key]
        /\ \A key \in PagedQueryKeys \ PagedLogicalKeys :
               PagedGetLastPageNumber(paged, key) = None
        /\ pagedCall[1] = "get_last_page_number" =>
               pagedRet = IF pagedCall[2] \in PagedLogicalKeys /\ pagedHist[pagedCall[2]] # <<>>
                          THEN Some(CeilDiv(Len(pagedHist[pagedCall[2]]), S) - 1)
                          ELSE None

\* C5 witness: 2*S + 1 items under key 1 with S = 3: pages of 3, 3 and 1
\* items, and get_last_page_number(1) has returned 2.
C5_Witness ==
    /\ S = 3
    /\ Len(pagedHist[1]) = 2 * S + 1
    /\ PagesOf(paged, 1) = {0, 1, 2}
    /\ SeqLen(PageSeq(paged, 1, 0)) = S
    /\ SeqLen(PageSeq(paged, 1, 1)) = S
    /\ SeqLen(PageSeq(paged, 1, 2)) = 1
    /\ pagedCall = <<"get_last_page_number", 1>>
    /\ pagedRet = Some(2)

----------------------------------------------------------------------------
(* paged.data used directly, as in tests::modify_max_with_prefix of paged.rs: *)
(* append_deep, len_deep and modify_max_with_prefix(p, |k, _| k)              *)

MaxAppends == 4

\* The page numbers of the test: 0, 1 and 2.
DeepPages == {0, 1, 2}

DeepKeys == {PagedKey(k, pg) : k \in PagedLogicalKeys, pg \in DeepPages}

InitDeep ==
    /\ S = 0
    /\ paged = PagedNew
    /\ pagedHist = <<>>
    /\ pagedCall = <<"new">>
    /\ pagedRet = None
    /\ InitMapIdle
    /\ InitGroupIdle
    /\ InitLabelIdle

RECURSIVE DeepItems(_)
DeepItems(data) ==
    IF data = <<>> THEN 0 ELSE SeqLen(Head(data)[2]) + DeepItems(Tail(data))

DoAppendDeep(key, value) ==
    /\ DeepItems(paged) < MaxAppends
    /\ paged' = AppendDeep(paged, key, value)
    /\ pagedCall' = <<"append_deep", key, value>>
    /\ pagedRet' = None
    /\ UNCHANGED <<S, pagedHist, mapVars, groupVars, labelVars>>

DoLenDeep(key) ==
    /\ pagedRet' = Some(LenDeep(paged, key))
    /\ pagedCall' = <<"len_deep", key>>
    /\ UNCHANGED <<S, paged, pagedHist, mapVars, groupVars, labelVars>>

\* modify_max_with_prefix(&prefix, |k, _| k)
DoModifyMaxWithPrefix(prefix) ==
    LET r == RbModifyMaxWithPrefix(paged, prefix, <<"key">>) IN
    /\ paged' = r.tree
    /\ pagedRet' = r.ret
    /\ pagedCall' = <<"modify_max_with_prefix", prefix>>
    /\ UNCHANGED <<S, pagedHist, mapVars, groupVars, labelVars>>

NextDeep ==
    \/ \E key \in DeepKeys, value \in PagedItems : DoAppendDeep(key, value)
    \/ \E key \in DeepKeys : DoLenDeep(key)
    \/ \E prefix \in PagedQueryKeys : DoModifyMaxWithPrefix(prefix)

SpecDeep == InitDeep /\ [][NextDeep]_vars

\* "insert an empty Seq when the key is absent, then append".
AppendDeepReference(m, key, value) ==
    LET m1 == IF MapGet(m, key) = None THEN MapInsert(m, key, SeqNew).tree ELSE m
    IN  RbModify(m1, key, <<"append", value>>).tree

\* C8: append_deep(key, value) has the net effect of inserting an empty Seq
\* when key is absent and then appending: a present key's Seq gains value as
\* its last item and keeps the earlier items, an absent key gets a Seq holding
\* exactly value, no other entry changes, len_deep(key) grows by one.
C8_AppendDeep ==
    [][ pagedCall'[1] = "append_deep" =>
           LET key == pagedCall'[2]
               value == pagedCall'[3]
               before == MapGet(paged, key)
           IN  /\ paged' = AppendDeepReference(paged, key, value)
               /\ MapGet(paged', key) =
                      Some((IF before = None THEN <<>> ELSE before[1]) \o <<value>>)
               /\ \A k \in DeepKeys \ {key} : MapGet(paged', k) = MapGet(paged, k)
               /\ MapLen(paged') = MapLen(paged) + (IF before = None THEN 1 ELSE 0)
               /\ LenDeep(paged', key) = LenDeep(paged, key) + 1
               /\ before = None => LenDeep(paged, key) = 0 ]_vars

\* C8 witness: append_deep has just added a third item to a present key, and
\* an earlier append_deep created another key.
C8_Witness ==
    /\ pagedCall[1] = "append_deep"
    /\ LenDeep(paged, pagedCall[2]) = 3
    /\ MapGet(paged, pagedCall[2]) = Some(<<0, 1, pagedCall[3]>>)
    /\ MapLen(paged) = 2

\* The entries of data whose logical key is prefix.
WithPrefix(data, prefix) ==
    {i \in 1..Len(data) : data[i][1][1] = prefix}

\* C10: modify_max_with_prefix(p, f) applies f to the entry with the largest
\* page number among the entries whose logical key is p and returns f's
\* result; without such an entry it returns None and f is not applied.
C10_PrefixMax ==
    [][ pagedCall'[1] = "modify_max_with_prefix" =>
           LET cands == WithPrefix(paged, pagedCall'[2]) IN
           /\ paged' = paged
           /\ IF cands = {}
              THEN pagedRet' = None
              ELSE \E i \in cands :
                      /\ \A j \in cands : paged[j][1][2] <= paged[i][1][2]
                      /\ pagedRet' = Some(paged[i][1]) ]_vars

\* C10 witness: with (1,0), (1,1), (1,2) and (3,0) stored,
\* modify_max_with_prefix(1, |k, _| k) has returned (1,2).
C10_Witness ==
    /\ pagedCall = <<"modify_max_with_prefix", 1>>
    /\ pagedRet = Some(PagedKey(1, 2))
    /\ PagesOf(paged, 1) = {0, 1, 2}
    /\ PagesOf(paged, 3) = {0}

----------------------------------------------------------------------------
(* GroupBuilder -> Group -> Ray, as in the tests of group.rs and builder.rs *)

\* "a" and "b"
GroupNames == {<<97>>, <<98>>}

\* Paths of at most two segments (the empty path included).
GroupPaths == {<<>>} \cup {<<a>> : a \in GroupNames}
                     \cup {<<a, b>> : a \in GroupNames, b \in GroupNames}

\* TypeId::of::<T>() of the leaf types
LeafTypes == {"i8", "u8", "StringToI8Map"}

\* The leaf handed to GroupBuilder::insert.
InitialLeaf(tid) ==
    IF tid = "StringToI8Map" THEN <<"map", MapNew>> ELSE <<"scalar", 17>>

\* "X" and "Y"
LeafMapKeys == <<(<<88>>), (<<89>>)>>

\* What a caller does through get_mut: store a scalar (17 or 18 in the i8,
\* 17 in the u8), or insert into the map.
Mutations(tid, leaf) ==
    IF leaf[1] = "scalar"
    THEN {<<"scalar", v>> : v \in IF tid = "i8" THEN {17, 18} ELSE {17}}
    ELSE {<<"map", MapInsert(leaf[2], LeafMapKeys[i], 17).tree>> : i \in 1..2}

\* What the closure given to Ray::partial returns: Pruned(root hash) (0), or
\* for a map its witness of "X" (1) or "Y" (2), for a scalar its hash tree.
PartialWitness(leaf, c) ==
    IF c = 0 THEN <<"Pruned", LeafRootHash(leaf)>>
    ELSE IF leaf[1] = "scalar" THEN LeafAsHashTree(leaf)
    ELSE MapWitness(leaf[2], LeafMapKeys[c])

\* The Group that test yyy of group.rs assembles by hand, before init().
YyyGroup ==
    [root |-> <<"Fork", 0,
                <<"Labeled", 0, <<65>>, <<"Leaf", 0, "StringToI8Map">>>>,
                <<"Leaf", 0, "i8">>>>,
     data |-> HashMapInsert(
                  HashMapInsert(<<>>, "i8", <<"scalar", 17>>),
                  "StringToI8Map", <<"map", MapInsert(MapNew, <<88>>, 17).tree>>),
     dependencies |-> <<>>]

InitGroup ==
    /\ gPc = "builder"
    /\ builder = GroupBuilderNew
    /\ group = None
    /\ ray = None
    /\ tree = None
    /\ gCall = <<"new">>
    /\ gPanic = ""
    /\ regs = {}
    /\ selected = {}
    /\ InitMapIdle
    /\ InitPagedIdle
    /\ InitLabelIdle

\* A call that panics ends the run.
Panics(call, message) ==
    /\ gPc' = "panic"
    /\ gPanic' = message
    /\ gCall' = call
    /\ UNCHANGED <<builder, group, ray, tree, regs, selected, mapVars, pagedVars, labelVars>>

DoBuilderInsert(path, tid) ==
    /\ gPc = "builder"
    /\ LET r == GroupBuilderInsert(builder, path, tid, InitialLeaf(tid)) IN
       IF r.panic # "" THEN Panics(<<"builder_insert", path, tid>>, r.panic)
       ELSE /\ builder' = r.builder
            /\ regs' = regs \cup {<<path, tid>>}
            /\ gCall' = <<"builder_insert", path, tid>>
            /\ UNCHANGED <<gPc, group, ray, tree, gPanic, selected, mapVars, pagedVars, labelVars>>

DoBuilderBuild ==
    /\ gPc = "builder"
    /\ LET r == GroupBuilderBuild(builder) IN
       IF r.panic # "" THEN Panics(<<"build">>, r.panic)
       ELSE /\ group' = r.group
            /\ gPc' = "group"
            /\ gCall' = <<"build">>
            /\ UNCHANGED <<builder, ray, tree, gPanic, regs, selected, mapVars, pagedVars, labelVars>>

\* test yyy: the hand-made Group, then group.init()
DoYyyInit ==
    /\ gPc = "builder"
    /\ regs = {}
    /\ group' = Some(GroupInit(YyyGroup))
    /\ regs' = {<<(<<(<<65>>)>>), "StringToI8Map">>, <<(<<>>), "i8">>}
    /\ gPc' = "group"
    /\ gCall' = <<"init">>
    /\ UNCHANGED <<builder, ray, tree, gPanic, selected, mapVars, pagedVars, labelVars>>

\* Group::get_mut::<T>() and a mutation of the leaf through the reference; no
\* Ray and no HashTree borrowed from the group is alive then.
DoGroupGetMut(tid) ==
    /\ gPc = "group"
    /\ ray = None
    /\ IF tid \notin DOMAIN group[1].data
       THEN Panics(<<"get_mut", tid>>, "Group does not contain the type")
       ELSE \E leaf \in Mutations(tid, group[1].data[tid]) :
               /\ group' = Some([group[1] EXCEPT !.data[tid] = leaf])
               /\ tree' = None
               /\ gCall' = <<"get_mut", tid>>
               /\ UNCHANGED <<gPc, builder, ray, gPanic, regs, selected, mapVars, pagedVars, labelVars>>

\* Group::get::<T>()
DoGroupGet(tid) ==
    /\ gPc = "group"
    /\ IF tid \notin DOMAIN group[1].data
       THEN Panics(<<"get", tid>>, "Group does not contain the type")
       ELSE /\ gCall' = <<"get", tid>>
            /\ UNCHANGED <<gPc, builder, group, ray, tree, gPanic, regs, selected,
                           mapVars, pagedVars, labelVars>>

\* Group::witness()
DoGroupWitness ==
    /\ gPc = "group"
    /\ ray = None
    /\ ray' = Some(RayNew)
    /\ selected' = {}
    /\ tree' = None
    /\ gCall' = <<"witness">>
    /\ UNCHANGED <<gPc, builder, group, gPanic, regs, mapVars, pagedVars, labelVars>>

DoRayFull(tid) ==
    /\ gPc = "group"
    /\ ray # None
    /\ IF tid \notin DOMAIN group[1].dependencies
       THEN Panics(<<"full", tid>>, "called Option::unwrap() on a None value")
       ELSE /\ ray' = Some(RayFull(group[1], ray[1], tid))
            /\ selected' = selected \cup {tid}
            /\ gCall' = <<"full", tid>>
            /\ UNCHANGED <<gPc, builder, group, tree, gPanic, regs, mapVars, pagedVars, labelVars>>

DoRayPartial(tid, c) ==
    /\ gPc = "group"
    /\ ray # None
    /\ IF tid \notin DOMAIN group[1].dependencies
       THEN Panics(<<"partial", tid>>, "called Option::unwrap() on a None value")
       ELSE /\ ray' = Some(RayPartial(group[1], ray[1], tid,
                                      PartialWitness(group[1].data[tid], c)))
            /\ selected' = selected \cup {tid}
            /\ gCall' = <<"partial", tid>>
            /\ UNCHANGED <<gPc, builder, group, tree, gPanic, regs, mapVars, pagedVars, labelVars>>

DoRayBuild ==
    /\ gPc = "group"
    /\ ray # None
    /\ LET r == RayBuild(group[1], ray[1]) IN
       IF r.panic THEN Panics(<<"ray_build">>, "called Option::unwrap() on a None value")
       ELSE /\ tree' = Some(r.tree)
            /\ ray' = None
            /\ gCall' = <<"ray_build">>
            /\ UNCHANGED <<gPc, builder, group, gPanic, regs, selected, mapVars, pagedVars, labelVars>>

NextGroup ==
    \/ \E path \in GroupPaths, tid \in LeafTypes : DoBuilderInsert(path, tid)
    \/ DoBuilderBuild
    \/ DoYyyInit
    \/ \E tid \in LeafTypes : DoGroupGetMut(tid)
    \/ \E tid \in LeafTypes : DoGroupGet(tid)
    \/ DoGroupWitness
    \/ \E tid \in LeafTypes : DoRayFull(tid)
    \/ \E tid \in LeafTypes, c \in 0..2 : DoRayPartial(tid, c)
    \/ DoRayBuild

SpecGroup == InitGroup /\ [][NextGroup]_vars

\* The leaf types below a shape node, read off the shape.
RECURSIVE ShapeTids(_)
ShapeTids(n) ==
    CASE n[1] = "Fork" -> ShapeTids(n[3]) \cup ShapeTids(n[4])
      [] n[1] = "Labeled" -> ShapeTids(n[4])
      [] n[1] = "Leaf" -> {n[3]}

\* C1: for an initialised Group, after any leaf mutations through get_mut,
\* every Ray (no selection, or any full / partial calls whose closures return
\* a witness of their leaf) builds a HashTree whose reconstruct() equals
\* Group::root_hash() and as_hash_tree().reconstruct().
C1_WitnessSoundness ==
    tree # None =>
        /\ reconstruct(tree[1]) = GroupRootHash(group[1])
        /\ reconstruct(tree[1]) = reconstruct(GroupAsHashTree(group[1]))

\* C1 witness: a Group of three leaves, the i8 and the map mutated through
\* get_mut, and a Ray that marked the map and the u8 has built a tree that is
\* neither the full tree nor one Pruned node.
C1_Witness ==
    /\ tree # None
    /\ gCall = <<"ray_build">>
    /\ DOMAIN group[1].data = LeafTypes
    /\ group[1].data["i8"] = <<"scalar", 18>>
    /\ MapLen(group[1].data["StringToI8Map"][2]) = 2
    /\ selected = {"StringToI8Map", "u8"}
    /\ tree[1][1] # "Pruned"
    /\ tree[1] # GroupAsHashTree(group[1])

\* The built tree t of shape node n shows nothing outside the selection L: a
\* node with no leaf of L below it is Pruned(its root hash), at the topmost
\* such node; the nodes above a leaf of L keep their shape.
RECURSIVE MinimalAt(_, _, _, _)
MinimalAt(n, t, L, data) ==
    IF ShapeTids(n) \cap L = {}
    THEN t = <<"Pruned", NodeRootHash(n, data)>>
    ELSE CASE n[1] = "Fork" ->
                 /\ t[1] = "Fork"
                 /\ MinimalAt(n[3], t[2], L, data)
                 /\ MinimalAt(n[4], t[3], L, data)
           [] n[1] = "Labeled" ->
                 /\ t[1] = "Labeled"
                 /\ t[2] = n[3]
                 /\ MinimalAt(n[4], t[3], L, data)
           [] n[1] = "Leaf" -> TRUE

\* C2: the tree built by a Ray that selected the leaves L shows every shape
\* node that is not an ancestor-or-self of a leaf of L only as Pruned(that
\* node's root hash), pruned at the topmost such node; a Ray with no selection
\* yields the single node Pruned(root hash).
C2_WitnessMinimality ==
    tree # None =>
        /\ MinimalAt(group[1].root, tree[1], selected, group[1].data)
        /\ selected = {} => tree[1] = <<"Pruned", GroupRootHash(group[1])>>

\* C2 witness: three leaves, only the i8 selected, and the built tree is not
\* a single Pruned node.
C2_Witness ==
    /\ tree # None
    /\ DOMAIN group[1].data = LeafTypes
    /\ selected = {"i8"}
    /\ tree[1][1] # "Pruned"
    /\ group[1].root[1] = "Fork"

\* C9: GroupBuilder::insert panics when the path or the leaf type is already
\* registered, Group::get / get_mut panic for a type that is not registered,
\* Ray::full / partial panic for a type absent from the shape tree; the call
\* changes nothing and nothing runs after the panic.
C9_ConfigurationErrors ==
    [][ /\ ( /\ gCall'[1] = "builder_insert"
             /\ \/ gCall'[2] \in {r[1] : r \in regs}
                \/ gCall'[3] \in {r[2] : r \in regs} )
           => (gPc' = "panic" /\ gPanic' # "" /\ builder' = builder /\ regs' = regs)
        /\ ( /\ gCall'[1] \in {"get", "get_mut"}
             /\ gCall'[2] \notin {r[2] : r \in regs} )
           => (gPc' = "panic" /\ gPanic' # "" /\ group' = group)
        /\ ( /\ gCall'[1] \in {"full", "partial"}
             /\ gCall'[2] \notin ShapeTids(group[1].root) )
           => (gPc' = "panic" /\ gPanic' # "" /\ ray' = ray)
        /\ gPc # "panic" ]_vars

\* C9 witness: GroupBuilder::insert has panicked on a path that an earlier
\* insert of another type had registered.
C9_Witness ==
    /\ gPc = "panic"
    /\ gCall[1] = "builder_insert"
    /\ gPanic = "Path is already used."
    /\ gCall[2] \in {r[1] : r \in regs}
    /\ gCall[3] \notin {r[2] : r \in regs}

\* The id fields of a shape tree, read in pre-order (node, left, right).
RECURSIVE PreorderIds(_)
PreorderIds(n) ==
    CASE n[1] = "Fork" -> <<n[2]>> \o PreorderIds(n[3]) \o PreorderIds(n[4])
      [] n[1] = "Labeled" -> <<n[2]>> \o PreorderIds(n[4])
      [] n[1] = "Leaf" -> <<n[2]>>

\* The id fields from n down to the Leaf of type tid, n and the leaf included.
RECURSIVE PathTo(_, _)
PathTo(n, tid) ==
    CASE n[1] = "Fork" ->
            <<n[2]>> \o (IF tid \in ShapeTids(n[3]) THEN PathTo(n[3], tid)
                         ELSE PathTo(n[4], tid))
      [] n[1] = "Labeled" -> <<n[2]>> \o PathTo(n[4], tid)
      [] n[1] = "Leaf" -> <<n[2]>>

\* The ids are the pre-order positions and the dependencies are the paths.
IdsAndPathsOf(g) ==
    /\ PreorderIds(g.root) = [i \in 1..Len(PreorderIds(g.root)) |-> i - 1]
    /\ DOMAIN g.dependencies = ShapeTids(g.root)
    /\ \A tid \in ShapeTids(g.root) : g.dependencies[tid] = PathTo(g.root, tid)

\* C11: after Group::init every shape node's id is its pre-order position
\* (root 0, a node before its subtree, a Fork's left subtree before its
\* right one) and dependencies maps every leaf type to the ids from the root
\* down to its leaf; get_mut, witness, full, partial and build leave the shape
\* tree and the dependencies as they are.
C11_PreorderIds ==
    /\ [](group # None => IdsAndPathsOf(group[1]))
    /\ [][group # None =>
            /\ group'[1].root = group[1].root
            /\ group'[1].dependencies = group[1].dependencies]_vars

\* C11 witness: a shape of at least seven nodes with a leaf three levels or
\* more below the root, after a get_mut mutation and a Ray::build.
C11_Witness ==
    /\ group # None
    /\ tree # None
    /\ Len(PreorderIds(group[1].root)) >= 7
    /\ \E tid \in DOMAIN group[1].dependencies : Len(group[1].dependencies[tid]) >= 4
    /\ "i8" \in DOMAIN group[1].data
    /\ group[1].data["i8"] = <<"scalar", 18>>

----------------------------------------------------------------------------
(* GroupBuilder with directories of up to five children, as in test xxx of  *)
(* builder.rs                                                                *)

\* "a" .. "e"
BuilderNames == {<<97>>, <<98>>, <<99>>, <<100>>, <<101>>}

\* Every name at the top level, and "a"/"a", "a"/"b" below it.
BuilderPaths == {<<a>> : a \in BuilderNames} \cup {<<(<<97>>), (<<97>>)>>, <<(<<97>>), (<<98>>)>>}

\* TypeId::of::<T>() of five leaf types
BuilderTypes == {"i8", "u8", "i16", "u16", "i32"}

NextBuilder ==
    \/ \E path \in BuilderPaths, tid \in BuilderTypes : DoBuilderInsert(path, tid)
    \/ DoBuilderBuild

SpecBuilder == InitGroup /\ [][NextBuilder]_vars

\* The maximal non-Fork nodes below n, left to right.
RECURSIVE Frontier(_)
Frontier(n) ==
    IF n[1] = "Fork" THEN Frontier(n[3]) \o Frontier(n[4]) ELSE <<n>>

\* The number of Fork nodes on the longest way down from n.
RECURSIVE ForkHeight(_)
ForkHeight(n) ==
    IF n[1] = "Fork"
    THEN 1 + (IF ForkHeight(n[3]) >= ForkHeight(n[4]) THEN ForkHeight(n[3])
              ELSE ForkHeight(n[4]))
    ELSE 0

RECURSIVE Pow2(_)
Pow2(e) == IF e = 0 THEN 1 ELSE 2 * Pow2(e - 1)

\* ceil(log2 k) for k >= 1
CeilLog2(k) == CHOOSE e \in 0..k : Pow2(e) >= k /\ (e = 0 \/ Pow2(e - 1) < k)

\* What pairing from the front leaves behind: the left subtree of every Fork
\* over c nodes is a full tree over the first 2^(ceil(log2 c) - 1) of them.
RECURSIVE PairedFromFront(_)
PairedFromFront(n) ==
    n[1] = "Fork" =>
        LET c == Len(Frontier(n)) IN
        /\ Len(Frontier(n[3])) = Pow2(CeilLog2(c) - 1)
        /\ ForkHeight(n[3]) = CeilLog2(c) - 1
        /\ PairedFromFront(n[3])
        /\ PairedFromFront(n[4])

\* The shape node n is what build makes of the builder node d.
RECURSIVE BuiltFrom(_, _)
BuiltFrom(d, n) ==
    IF d[1] = "Leaf" THEN n[1] = "Leaf" /\ n[3] = d[2]
    ELSE LET f == Frontier(n)
             k == Cardinality(DOMAIN d[2])
         IN  /\ Len(f) = k
             /\ \A i \in 1..Len(f) :
                   /\ f[i][1] = "Labeled"
                   /\ f[i][3] \in DOMAIN d[2]
                   /\ BuiltFrom(d[2][f[i][3]], f[i][4])
             /\ \A i, j \in 1..Len(f) : i < j => LexLess(f[i][3], f[j][3])
             /\ (k = 1 => n[1] = "Labeled")
             /\ ForkHeight(n) <= CeilLog2(k)
             /\ PairedFromFront(n)

\* C12: GroupBuilder::build turns every directory of k >= 1 children into a
\* Fork tree whose leaves, left to right, are the children's Labeled nodes in
\* ascending name order, each once (one child: the bare Labeled node), paired
\* from the front with an odd last node carried over, of height at most
\* ceil(log2 k).
C12_SemiBalancedBuild ==
    (gPc = "group" /\ gCall = <<"build">>) => BuiltFrom(builder.root, group[1].root)

\* C12 witness: a built root directory of five children, whose Fork tree has
\* height three with the fifth child carried over twice.
C12_Witness ==
    /\ gPc = "group"
    /\ gCall = <<"build">>
    /\ Cardinality(DOMAIN builder.root[2]) = 5
    /\ ForkHeight(group[1].root) = 3
    /\ group[1].root[4][1] = "Labeled"

----------------------------------------------------------------------------
(* PagedKey<K> for a byte-string K (Vec<u8>, String): its derived Ord and   *)
(* its label                                                                 *)

\* u32::to_be_bytes
ToBeBytes(n) ==
    <<(n \div 16777216) % 256, (n \div 65536) % 256, (n \div 256) % 256, n % 256>>

\* impl<T: Ord + AsRef<[u8]>> Label for T: the bytes themselves, borrowed
AsLabel(k) == k

\* impl Label for PagedKey<K>: the key's label, then the page, big-endian
PagedKeyAsLabel(pk) == AsLabel(PagedKeyBorrow(pk)) \o ToBeBytes(PagedKeyPage(pk))

\* Ord::cmp of two byte strings
BytesCmp(a, b) ==
    IF a = b THEN "Equal" ELSE IF LexLess(a, b) THEN "Less" ELSE "Greater"

\* #[derive(Ord)] on PagedKey { key, page }: by key, then by page
PagedKeyCmp(a, b) ==
    IF PagedKeyBorrow(a) # PagedKeyBorrow(b)
    THEN BytesCmp(PagedKeyBorrow(a), PagedKeyBorrow(b))
    ELSE IF PagedKeyPage(a) < PagedKeyPage(b) THEN "Less"
    ELSE IF PagedKeyPage(a) > PagedKeyPage(b) THEN "Greater"
    ELSE "Equal"

\* "", "\0", "A", "A\0", "A\0\0", "AB", "B"
LabelKeys == {<<>>, <<0>>, <<65>>, <<65, 0>>, <<65, 0, 0>>, <<65, 66>>, <<66>>}

\* page numbers that differ in each of the four bytes
LabelPages == {0, 1, 2, 256, 65536, 16777216}

InitLabel ==
    /\ keyA \in {PagedKey(k, p) : k \in LabelKeys, p \in LabelPages}
    /\ keyB \in {PagedKey(k, p) : k \in LabelKeys, p \in LabelPages}
    /\ cmpOrd = ""
    /\ cmpLabel = ""
    /\ InitMapIdle
    /\ InitPagedIdle
    /\ InitGroupIdle

\* keyA.cmp(&keyB)
DoPagedKeyCmp ==
    /\ cmpOrd = ""
    /\ cmpOrd' = PagedKeyCmp(keyA, keyB)
    /\ UNCHANGED <<keyA, keyB, cmpLabel, mapVars, pagedVars, groupVars>>

\* keyA.as_label().cmp(&keyB.as_label())
DoLabelCmp ==
    /\ cmpLabel = ""
    /\ cmpLabel' = BytesCmp(PagedKeyAsLabel(keyA), PagedKeyAsLabel(keyB))
    /\ UNCHANGED <<keyA, keyB, cmpOrd, mapVars, pagedVars, groupVars>>

NextLabel == DoPagedKeyCmp \/ DoLabelCmp

SpecLabel == InitLabel /\ [][NextLabel]_vars

\* C13: for any two PagedKey values a and b, a < b under PagedKey's own
\* ordering exactly when a.as_label() is byte-lexicographically smaller than
\* b.as_label().
C13_OrderConsistentWithLabel ==
    (cmpOrd # "" /\ cmpLabel # "") => ((cmpOrd = "Less") <=> (cmpLabel = "Less"))

\* The Leaf nodes of a shape tree, as <<id, tid>>.
RECURSIVE ShapeLeaves(_)
ShapeLeaves(n) ==
    CASE n[1] = "Fork" -> ShapeLeaves(n[3]) \cup ShapeLeaves(n[4])
      [] n[1] = "Labeled" -> ShapeLeaves(n[4])
      [] n[1] = "Leaf" -> {<<n[2], n[3]>>}

\* Ray::build on the Ray r of g finds an override at every Leaf it reaches.
BuildFindsOverrides(g, r) ==
    /\ ~RayBuild(g, r).panic
    /\ RayBuild(g, r).leaves = <<>>
    /\ \A l \in ShapeLeaves(g.root) :
          /\ \A m \in ShapeLeaves(g.root) : m[2] = l[2] => m = l
          /\ l[1] \in r.to_visit <=> l[2] \in selected
          /\ l[1] \in r.to_visit => l[2] \in DOMAIN r.leaves
          /\ l[1] \in r.to_visit => SeqToSet(PathTo(g.root, l[2])) \subseteq r.to_visit

\* C14: Ray::build never fails on a missing override: whatever full / partial
\* calls were made on registered types (a type marked more than once
\* included), every Leaf whose id is in to_visit has an override stored for
\* its type, no type tag sits on two leaves so an override is taken at most
\* once, every leaf that was not marked is outside to_visit, and the call
\* returns a tree.
C14_BuildFindsOverrides ==
    /\ [](ray # None => BuildFindsOverrides(group[1], ray[1]))
    /\ [][gCall' = <<"ray_build">> => (gPc' = "group" /\ gPanic' = "" /\ tree' # None)]_vars

\* C14 witness: Ray::build has returned after two of three leaves were
\* marked, the map with a partial witness.
C14_Witness ==
    /\ gPc = "group"
    /\ gCall = <<"ray_build">>
    /\ ray = None
    /\ Cardinality(ShapeLeaves(group[1].root)) = 3
    /\ selected = {"i8", "StringToI8Map"}
    /\ tree[1] # GroupAsHashTree(group[1])

\* GroupBuilder::new() followed by the insert calls of q, in that order.
RECURSIVE InsertAll(_)
InsertAll(q) ==
    IF q = <<>> THEN [builder |-> GroupBuilderNew, panic |-> ""]
    ELSE LET b == InsertAll(SubSeq(q, 1, Len(q) - 1))
             e == q[Len(q)]
         IN  IF b.panic # "" THEN b
             ELSE GroupBuilderInsert(b.builder, e[1], e[2], InitialLeaf(e[2]))

\* C15: the Group that GroupBuilder makes depends on the set of (path, leaf)
\* registrations only: the same insert calls in any other order all succeed
\* too and build the same shape tree, node ids, dependencies and root_hash().
C15_InsertOrderIndependence ==
    (gPc = "group" /\ gCall = <<"build">>) =>
        \A q \in Perms(regs) :
            LET b == InsertAll(q) IN
            /\ b.panic = ""
            /\ LET g == GroupBuilderBuild(b.builder).group IN
               /\ g = group
               /\ GroupRootHash(g[1]) = GroupRootHash(group[1])

\* C15 witness: a Group built from four registrations, two of them in the
\* same sub-directory.
C15_Witness ==
    /\ gPc = "group"
    /\ gCall = <<"build">>
    /\ Cardinality(regs) = 4
    /\ {<<(<<97>>), (<<97>>)>>, <<(<<97>>), (<<98>>)>>} \subseteq {r[1] : r \in regs}

====
